---------------------------- MODULE Spec2Model ----------------------------
(***************************************************************************)
(* RinviaBot: free-text chat messages turned into calendar events.         *)
(*                                                                         *)
(* Three parser variants live in the repository:                           *)
(*   bot.py          _extract_datetime / parse_simple_event  (Telegram)    *)
(*   wa_webhook.py   _extract_datetime / parse_event         (WhatsApp)    *)
(*   unnamed/part_000 ("bot copia.py") parse_simple_event    (older copy)  *)
(* and three message handlers that call them.                              *)
(*                                                                         *)
(* A text is a sequence of code points.  The regular expressions           *)
(* of the source are modelled by what Python's backtracking matcher does:  *)
(* the alternatives of a pattern are listed in the order the matcher tries *)
(* them and the first that succeeds is the match; re.search takes the      *)
(* leftmost start position that has a match.                               *)
(***************************************************************************)
EXTENDS Integers, Sequences, FiniteSets, TLC

(***************************************************************************)
(* Characters.  A character is its Unicode code point, as the patterns of  *)
(* the source are str patterns: \d, \w, \s and \b, str.strip,              *)
(* str.splitlines and int() work on all of Unicode.  Ord gives the code    *)
(* point of a character that the source writes as a literal.               *)
(***************************************************************************)
\* the characters of code points 32..95, in order
PrintableTo95 ==
   << " ", "!", "\"", "#", "$", "%", "&", "'", "(", ")", "*", "+", ",", "-",
      ".", "/", "0", "1", "2", "3", "4", "5", "6", "7", "8", "9", ":", ";",
      "<", "=", ">", "?", "@", "A", "B", "C", "D", "E", "F", "G", "H", "I",
      "J", "K", "L", "M", "N", "O", "P", "Q", "R", "S", "T", "U", "V", "W",
      "X", "Y", "Z", "[", "\\", "]", "^", "_" >>

\* the characters of code points 97..126, in order
PrintableFrom97 ==
   << "a", "b", "c", "d", "e", "f", "g", "h", "i", "j", "k", "l", "m", "n",
      "o", "p", "q", "r", "s", "t", "u", "v", "w", "x", "y", "z", "{", "|",
      "}", "~" >>

\* tab, line feed, form feed, carriage return
ControlCodes == [c \in {"\t", "\n", "\f", "\r"} |->
                    IF c = "\t" THEN 9 ELSE IF c = "\n" THEN 10
                    ELSE IF c = "\f" THEN 12 ELSE 13]

\* the place of x in the tuple s
PlaceIn(s, x) == CHOOSE i \in 1..Len(s) : s[i] = x

\* ord(c) of a character a literal of the source can hold
Ord == [c \in {PrintableTo95[i] : i \in 1..Len(PrintableTo95)}
               \cup {PrintableFrom97[i] : i \in 1..Len(PrintableFrom97)}
               \cup DOMAIN ControlCodes |->
           IF c \in DOMAIN ControlCodes THEN ControlCodes[c]
           ELSE IF \E i \in 1..Len(PrintableTo95) : PrintableTo95[i] = c
           THEN 31 + PlaceIn(PrintableTo95, c)
           ELSE 96 + PlaceIn(PrintableFrom97, c)]

\* the code points of a text written as a tuple of characters
Codes(s) == [k \in 1..Len(s) |-> Ord[s[k]]]

\* c lies in one of the ranges rs[lo], .., rs[hi], which are in increasing
\* order
RECURSIVE InRanges(_, _, _, _)
InRanges(c, rs, lo, hi) ==
    IF lo > hi THEN FALSE
    ELSE IF c < rs[(lo + hi) \div 2][1]
    THEN InRanges(c, rs, lo, ((lo + hi) \div 2) - 1)
    ELSE IF c > rs[(lo + hi) \div 2][2]
    THEN InRanges(c, rs, ((lo + hi) \div 2) + 1, hi)
    ELSE TRUE

\* regex \d, str.isdecimal: the runs of decimal digits of Unicode; in every
\* run the digits 0..9 follow each other, ten by ten
DecimalRanges ==
    << <<48, 57>>, <<1632, 1641>>, <<1776, 1785>>, <<1984, 1993>>,
    <<2406, 2415>>, <<2534, 2543>>, <<2662, 2671>>, <<2790, 2799>>,
    <<2918, 2927>>, <<3046, 3055>>, <<3174, 3183>>, <<3302, 3311>>,
    <<3430, 3439>>, <<3558, 3567>>, <<3664, 3673>>, <<3792, 3801>>,
    <<3872, 3881>>, <<4160, 4169>>, <<4240, 4249>>, <<6112, 6121>>,
    <<6160, 6169>>, <<6470, 6479>>, <<6608, 6617>>, <<6784, 6793>>,
    <<6800, 6809>>, <<6992, 7001>>, <<7088, 7097>>, <<7232, 7241>>,
    <<7248, 7257>>, <<42528, 42537>>, <<43216, 43225>>, <<43264, 43273>>,
    <<43472, 43481>>, <<43504, 43513>>, <<43600, 43609>>,
    <<44016, 44025>>, <<65296, 65305>>, <<66720, 66729>>,
    <<68912, 68921>>, <<69734, 69743>>, <<69872, 69881>>,
    <<69942, 69951>>, <<70096, 70105>>, <<70384, 70393>>,
    <<70736, 70745>>, <<70864, 70873>>, <<71248, 71257>>,
    <<71360, 71369>>, <<71472, 71481>>, <<71904, 71913>>,
    <<72016, 72025>>, <<72784, 72793>>, <<73040, 73049>>,
    <<73120, 73129>>, <<92768, 92777>>, <<92864, 92873>>,
    <<93008, 93017>>, <<120782, 120831>>, <<123200, 123209>>,
    <<123632, 123641>>, <<125264, 125273>>, <<130032, 130041>> >>

IsDecimal(c) ==
    IF c < 128 THEN 48 <= c /\ c <= 57
    ELSE InRanges(c, DecimalRanges, 1, Len(DecimalRanges))

\* str.isalnum above ASCII: letters, digits and other numeric characters
AlnumRanges ==
    << <<170, 170>>, <<178, 179>>, <<181, 181>>, <<185, 186>>, <<188, 190>>,
    <<192, 214>>, <<216, 246>>, <<248, 705>>, <<710, 721>>, <<736, 740>>,
    <<748, 748>>, <<750, 750>>, <<880, 884>>, <<886, 887>>, <<890, 893>>,
    <<895, 895>>, <<902, 902>>, <<904, 906>>, <<908, 908>>, <<910, 929>>,
    <<931, 1013>>, <<1015, 1153>>, <<1162, 1327>>, <<1329, 1366>>,
    <<1369, 1369>>, <<1376, 1416>>, <<1488, 1514>>, <<1519, 1522>>,
    <<1568, 1610>>, <<1632, 1641>>, <<1646, 1647>>, <<1649, 1747>>,
    <<1749, 1749>>, <<1765, 1766>>, <<1774, 1788>>, <<1791, 1791>>,
    <<1808, 1808>>, <<1810, 1839>>, <<1869, 1957>>, <<1969, 1969>>,
    <<1984, 2026>>, <<2036, 2037>>, <<2042, 2042>>, <<2048, 2069>>,
    <<2074, 2074>>, <<2084, 2084>>, <<2088, 2088>>, <<2112, 2136>>,
    <<2144, 2154>>, <<2160, 2183>>, <<2185, 2190>>, <<2208, 2249>>,
    <<2308, 2361>>, <<2365, 2365>>, <<2384, 2384>>, <<2392, 2401>>,
    <<2406, 2415>>, <<2417, 2432>>, <<2437, 2444>>, <<2447, 2448>>,
    <<2451, 2472>>, <<2474, 2480>>, <<2482, 2482>>, <<2486, 2489>>,
    <<2493, 2493>>, <<2510, 2510>>, <<2524, 2525>>, <<2527, 2529>>,
    <<2534, 2545>>, <<2548, 2553>>, <<2556, 2556>>, <<2565, 2570>>,
    <<2575, 2576>>, <<2579, 2600>>, <<2602, 2608>>, <<2610, 2611>>,
    <<2613, 2614>>, <<2616, 2617>>, <<2649, 2652>>, <<2654, 2654>>,
    <<2662, 2671>>, <<2674, 2676>>, <<2693, 2701>>, <<2703, 2705>>,
    <<2707, 2728>>, <<2730, 2736>>, <<2738, 2739>>, <<2741, 2745>>,
    <<2749, 2749>>, <<2768, 2768>>, <<2784, 2785>>, <<2790, 2799>>,
    <<2809, 2809>>, <<2821, 2828>>, <<2831, 2832>>, <<2835, 2856>>,
    <<2858, 2864>>, <<2866, 2867>>, <<2869, 2873>>, <<2877, 2877>>,
    <<2908, 2909>>, <<2911, 2913>>, <<2918, 2927>>, <<2929, 2935>>,
    <<2947, 2947>>, <<2949, 2954>>, <<2958, 2960>>, <<2962, 2965>>,
    <<2969, 2970>>, <<2972, 2972>>, <<2974, 2975>>, <<2979, 2980>>,
    <<2984, 2986>>, <<2990, 3001>>, <<3024, 3024>>, <<3046, 3058>>,
    <<3077, 3084>>, <<3086, 3088>>, <<3090, 3112>>, <<3114, 3129>>,
    <<3133, 3133>>, <<3160, 3162>>, <<3165, 3165>>, <<3168, 3169>>,
    <<3174, 3183>>, <<3192, 3198>>, <<3200, 3200>>, <<3205, 3212>>,
    <<3214, 3216>>, <<3218, 3240>>, <<3242, 3251>>, <<3253, 3257>>,
    <<3261, 3261>>, <<3293, 3294>>, <<3296, 3297>>, <<3302, 3311>>,
    <<3313, 3314>>, <<3332, 3340>>, <<3342, 3344>>, <<3346, 3386>>,
    <<3389, 3389>>, <<3406, 3406>>, <<3412, 3414>>, <<3416, 3425>>,
    <<3430, 3448>>, <<3450, 3455>>, <<3461, 3478>>, <<3482, 3505>>,
    <<3507, 3515>>, <<3517, 3517>>, <<3520, 3526>>, <<3558, 3567>>,
    <<3585, 3632>>, <<3634, 3635>>, <<3648, 3654>>, <<3664, 3673>>,
    <<3713, 3714>>, <<3716, 3716>>, <<3718, 3722>>, <<3724, 3747>>,
    <<3749, 3749>>, <<3751, 3760>>, <<3762, 3763>>, <<3773, 3773>>,
    <<3776, 3780>>, <<3782, 3782>>, <<3792, 3801>>, <<3804, 3807>>,
    <<3840, 3840>>, <<3872, 3891>>, <<3904, 3911>>, <<3913, 3948>>,
    <<3976, 3980>>, <<4096, 4138>>, <<4159, 4169>>, <<4176, 4181>>,
    <<4186, 4189>>, <<4193, 4193>>, <<4197, 4198>>, <<4206, 4208>>,
    <<4213, 4225>>, <<4238, 4238>>, <<4240, 4249>>, <<4256, 4293>>,
    <<4295, 4295>>, <<4301, 4301>>, <<4304, 4346>>, <<4348, 4680>>,
    <<4682, 4685>>, <<4688, 4694>>, <<4696, 4696>>, <<4698, 4701>>,
    <<4704, 4744>>, <<4746, 4749>>, <<4752, 4784>>, <<4786, 4789>>,
    <<4792, 4798>>, <<4800, 4800>>, <<4802, 4805>>, <<4808, 4822>>,
    <<4824, 4880>>, <<4882, 4885>>, <<4888, 4954>>, <<4969, 4988>>,
    <<4992, 5007>>, <<5024, 5109>>, <<5112, 5117>>, <<5121, 5740>>,
    <<5743, 5759>>, <<5761, 5786>>, <<5792, 5866>>, <<5870, 5880>>,
    <<5888, 5905>>, <<5919, 5937>>, <<5952, 5969>>, <<5984, 5996>>,
    <<5998, 6000>>, <<6016, 6067>>, <<6103, 6103>>, <<6108, 6108>>,
    <<6112, 6121>>, <<6128, 6137>>, <<6160, 6169>>, <<6176, 6264>>,
    <<6272, 6276>>, <<6279, 6312>>, <<6314, 6314>>, <<6320, 6389>>,
    <<6400, 6430>>, <<6470, 6509>>, <<6512, 6516>>, <<6528, 6571>>,
    <<6576, 6601>>, <<6608, 6618>>, <<6656, 6678>>, <<6688, 6740>>,
    <<6784, 6793>>, <<6800, 6809>>, <<6823, 6823>>, <<6917, 6963>>,
    <<6981, 6988>>, <<6992, 7001>>, <<7043, 7072>>, <<7086, 7141>>,
    <<7168, 7203>>, <<7232, 7241>>, <<7245, 7293>>, <<7296, 7304>>,
    <<7312, 7354>>, <<7357, 7359>>, <<7401, 7404>>, <<7406, 7411>>,
    <<7413, 7414>>, <<7418, 7418>>, <<7424, 7615>>, <<7680, 7957>>,
    <<7960, 7965>>, <<7968, 8005>>, <<8008, 8013>>, <<8016, 8023>>,
    <<8025, 8025>>, <<8027, 8027>>, <<8029, 8029>>, <<8031, 8061>>,
    <<8064, 8116>>, <<8118, 8124>>, <<8126, 8126>>, <<8130, 8132>>,
    <<8134, 8140>>, <<8144, 8147>>, <<8150, 8155>>, <<8160, 8172>>,
    <<8178, 8180>>, <<8182, 8188>>, <<8304, 8305>>, <<8308, 8313>>,
    <<8319, 8329>>, <<8336, 8348>>, <<8450, 8450>>, <<8455, 8455>>,
    <<8458, 8467>>, <<8469, 8469>>, <<8473, 8477>>, <<8484, 8484>>,
    <<8486, 8486>>, <<8488, 8488>>, <<8490, 8493>>, <<8495, 8505>>,
    <<8508, 8511>>, <<8517, 8521>>, <<8526, 8526>>, <<8528, 8585>>,
    <<9312, 9371>>, <<9450, 9471>>, <<10102, 10131>>, <<11264, 11492>>,
    <<11499, 11502>>, <<11506, 11507>>, <<11517, 11517>>,
    <<11520, 11557>>, <<11559, 11559>>, <<11565, 11565>>,
    <<11568, 11623>>, <<11631, 11631>>, <<11648, 11670>>,
    <<11680, 11686>>, <<11688, 11694>>, <<11696, 11702>>,
    <<11704, 11710>>, <<11712, 11718>>, <<11720, 11726>>,
    <<11728, 11734>>, <<11736, 11742>>, <<11823, 11823>>,
    <<12293, 12295>>, <<12321, 12329>>, <<12337, 12341>>,
    <<12344, 12348>>, <<12353, 12438>>, <<12445, 12447>>,
    <<12449, 12538>>, <<12540, 12543>>, <<12549, 12591>>,
    <<12593, 12686>>, <<12690, 12693>>, <<12704, 12735>>,
    <<12784, 12799>>, <<12832, 12841>>, <<12872, 12879>>,
    <<12881, 12895>>, <<12928, 12937>>, <<12977, 12991>>,
    <<13312, 19903>>, <<19968, 42124>>, <<42192, 42237>>,
    <<42240, 42508>>, <<42512, 42539>>, <<42560, 42606>>,
    <<42623, 42653>>, <<42656, 42735>>, <<42775, 42783>>,
    <<42786, 42888>>, <<42891, 42954>>, <<42960, 42961>>,
    <<42963, 42963>>, <<42965, 42969>>, <<42994, 43009>>,
    <<43011, 43013>>, <<43015, 43018>>, <<43020, 43042>>,
    <<43056, 43061>>, <<43072, 43123>>, <<43138, 43187>>,
    <<43216, 43225>>, <<43250, 43255>>, <<43259, 43259>>,
    <<43261, 43262>>, <<43264, 43301>>, <<43312, 43334>>,
    <<43360, 43388>>, <<43396, 43442>>, <<43471, 43481>>,
    <<43488, 43492>>, <<43494, 43518>>, <<43520, 43560>>,
    <<43584, 43586>>, <<43588, 43595>>, <<43600, 43609>>,
    <<43616, 43638>>, <<43642, 43642>>, <<43646, 43695>>,
    <<43697, 43697>>, <<43701, 43702>>, <<43705, 43709>>,
    <<43712, 43712>>, <<43714, 43714>>, <<43739, 43741>>,
    <<43744, 43754>>, <<43762, 43764>>, <<43777, 43782>>,
    <<43785, 43790>>, <<43793, 43798>>, <<43808, 43814>>,
    <<43816, 43822>>, <<43824, 43866>>, <<43868, 43881>>,
    <<43888, 44002>>, <<44016, 44025>>, <<44032, 55203>>,
    <<55216, 55238>>, <<55243, 55291>>, <<63744, 64109>>,
    <<64112, 64217>>, <<64256, 64262>>, <<64275, 64279>>,
    <<64285, 64285>>, <<64287, 64296>>, <<64298, 64310>>,
    <<64312, 64316>>, <<64318, 64318>>, <<64320, 64321>>,
    <<64323, 64324>>, <<64326, 64433>>, <<64467, 64829>>,
    <<64848, 64911>>, <<64914, 64967>>, <<65008, 65019>>,
    <<65136, 65140>>, <<65142, 65276>>, <<65296, 65305>>,
    <<65313, 65338>>, <<65345, 65370>>, <<65382, 65470>>,
    <<65474, 65479>>, <<65482, 65487>>, <<65490, 65495>>,
    <<65498, 65500>>, <<65536, 65547>>, <<65549, 65574>>,
    <<65576, 65594>>, <<65596, 65597>>, <<65599, 65613>>,
    <<65616, 65629>>, <<65664, 65786>>, <<65799, 65843>>,
    <<65856, 65912>>, <<65930, 65931>>, <<66176, 66204>>,
    <<66208, 66256>>, <<66273, 66299>>, <<66304, 66339>>,
    <<66349, 66378>>, <<66384, 66421>>, <<66432, 66461>>,
    <<66464, 66499>>, <<66504, 66511>>, <<66513, 66517>>,
    <<66560, 66717>>, <<66720, 66729>>, <<66736, 66771>>,
    <<66776, 66811>>, <<66816, 66855>>, <<66864, 66915>>,
    <<66928, 66938>>, <<66940, 66954>>, <<66956, 66962>>,
    <<66964, 66965>>, <<66967, 66977>>, <<66979, 66993>>,
    <<66995, 67001>>, <<67003, 67004>>, <<67072, 67382>>,
    <<67392, 67413>>, <<67424, 67431>>, <<67456, 67461>>,
    <<67463, 67504>>, <<67506, 67514>>, <<67584, 67589>>,
    <<67592, 67592>>, <<67594, 67637>>, <<67639, 67640>>,
    <<67644, 67644>>, <<67647, 67669>>, <<67672, 67702>>,
    <<67705, 67742>>, <<67751, 67759>>, <<67808, 67826>>,
    <<67828, 67829>>, <<67835, 67867>>, <<67872, 67897>>,
    <<67968, 68023>>, <<68028, 68047>>, <<68050, 68096>>,
    <<68112, 68115>>, <<68117, 68119>>, <<68121, 68149>>,
    <<68160, 68168>>, <<68192, 68222>>, <<68224, 68255>>,
    <<68288, 68295>>, <<68297, 68324>>, <<68331, 68335>>,
    <<68352, 68405>>, <<68416, 68437>>, <<68440, 68466>>,
    <<68472, 68497>>, <<68521, 68527>>, <<68608, 68680>>,
    <<68736, 68786>>, <<68800, 68850>>, <<68858, 68899>>,
    <<68912, 68921>>, <<69216, 69246>>, <<69248, 69289>>,
    <<69296, 69297>>, <<69376, 69415>>, <<69424, 69445>>,
    <<69457, 69460>>, <<69488, 69505>>, <<69552, 69579>>,
    <<69600, 69622>>, <<69635, 69687>>, <<69714, 69743>>,
    <<69745, 69746>>, <<69749, 69749>>, <<69763, 69807>>,
    <<69840, 69864>>, <<69872, 69881>>, <<69891, 69926>>,
    <<69942, 69951>>, <<69956, 69956>>, <<69959, 69959>>,
    <<69968, 70002>>, <<70006, 70006>>, <<70019, 70066>>,
    <<70081, 70084>>, <<70096, 70106>>, <<70108, 70108>>,
    <<70113, 70132>>, <<70144, 70161>>, <<70163, 70187>>,
    <<70272, 70278>>, <<70280, 70280>>, <<70282, 70285>>,
    <<70287, 70301>>, <<70303, 70312>>, <<70320, 70366>>,
    <<70384, 70393>>, <<70405, 70412>>, <<70415, 70416>>,
    <<70419, 70440>>, <<70442, 70448>>, <<70450, 70451>>,
    <<70453, 70457>>, <<70461, 70461>>, <<70480, 70480>>,
    <<70493, 70497>>, <<70656, 70708>>, <<70727, 70730>>,
    <<70736, 70745>>, <<70751, 70753>>, <<70784, 70831>>,
    <<70852, 70853>>, <<70855, 70855>>, <<70864, 70873>>,
    <<71040, 71086>>, <<71128, 71131>>, <<71168, 71215>>,
    <<71236, 71236>>, <<71248, 71257>>, <<71296, 71338>>,
    <<71352, 71352>>, <<71360, 71369>>, <<71424, 71450>>,
    <<71472, 71483>>, <<71488, 71494>>, <<71680, 71723>>,
    <<71840, 71922>>, <<71935, 71942>>, <<71945, 71945>>,
    <<71948, 71955>>, <<71957, 71958>>, <<71960, 71983>>,
    <<71999, 71999>>, <<72001, 72001>>, <<72016, 72025>>,
    <<72096, 72103>>, <<72106, 72144>>, <<72161, 72161>>,
    <<72163, 72163>>, <<72192, 72192>>, <<72203, 72242>>,
    <<72250, 72250>>, <<72272, 72272>>, <<72284, 72329>>,
    <<72349, 72349>>, <<72368, 72440>>, <<72704, 72712>>,
    <<72714, 72750>>, <<72768, 72768>>, <<72784, 72812>>,
    <<72818, 72847>>, <<72960, 72966>>, <<72968, 72969>>,
    <<72971, 73008>>, <<73030, 73030>>, <<73040, 73049>>,
    <<73056, 73061>>, <<73063, 73064>>, <<73066, 73097>>,
    <<73112, 73112>>, <<73120, 73129>>, <<73440, 73458>>,
    <<73648, 73648>>, <<73664, 73684>>, <<73728, 74649>>,
    <<74752, 74862>>, <<74880, 75075>>, <<77712, 77808>>,
    <<77824, 78894>>, <<82944, 83526>>, <<92160, 92728>>,
    <<92736, 92766>>, <<92768, 92777>>, <<92784, 92862>>,
    <<92864, 92873>>, <<92880, 92909>>, <<92928, 92975>>,
    <<92992, 92995>>, <<93008, 93017>>, <<93019, 93025>>,
    <<93027, 93047>>, <<93053, 93071>>, <<93760, 93846>>,
    <<93952, 94026>>, <<94032, 94032>>, <<94099, 94111>>,
    <<94176, 94177>>, <<94179, 94179>>, <<94208, 100343>>,
    <<100352, 101589>>, <<101632, 101640>>, <<110576, 110579>>,
    <<110581, 110587>>, <<110589, 110590>>, <<110592, 110882>>,
    <<110928, 110930>>, <<110948, 110951>>, <<110960, 111355>>,
    <<113664, 113770>>, <<113776, 113788>>, <<113792, 113800>>,
    <<113808, 113817>>, <<119520, 119539>>, <<119648, 119672>>,
    <<119808, 119892>>, <<119894, 119964>>, <<119966, 119967>>,
    <<119970, 119970>>, <<119973, 119974>>, <<119977, 119980>>,
    <<119982, 119993>>, <<119995, 119995>>, <<119997, 120003>>,
    <<120005, 120069>>, <<120071, 120074>>, <<120077, 120084>>,
    <<120086, 120092>>, <<120094, 120121>>, <<120123, 120126>>,
    <<120128, 120132>>, <<120134, 120134>>, <<120138, 120144>>,
    <<120146, 120485>>, <<120488, 120512>>, <<120514, 120538>>,
    <<120540, 120570>>, <<120572, 120596>>, <<120598, 120628>>,
    <<120630, 120654>>, <<120656, 120686>>, <<120688, 120712>>,
    <<120714, 120744>>, <<120746, 120770>>, <<120772, 120779>>,
    <<120782, 120831>>, <<122624, 122654>>, <<123136, 123180>>,
    <<123191, 123197>>, <<123200, 123209>>, <<123214, 123214>>,
    <<123536, 123565>>, <<123584, 123627>>, <<123632, 123641>>,
    <<124896, 124902>>, <<124904, 124907>>, <<124909, 124910>>,
    <<124912, 124926>>, <<124928, 125124>>, <<125127, 125135>>,
    <<125184, 125251>>, <<125259, 125259>>, <<125264, 125273>>,
    <<126065, 126123>>, <<126125, 126127>>, <<126129, 126132>>,
    <<126209, 126253>>, <<126255, 126269>>, <<126464, 126467>>,
    <<126469, 126495>>, <<126497, 126498>>, <<126500, 126500>>,
    <<126503, 126503>>, <<126505, 126514>>, <<126516, 126519>>,
    <<126521, 126521>>, <<126523, 126523>>, <<126530, 126530>>,
    <<126535, 126535>>, <<126537, 126537>>, <<126539, 126539>>,
    <<126541, 126543>>, <<126545, 126546>>, <<126548, 126548>>,
    <<126551, 126551>>, <<126553, 126553>>, <<126555, 126555>>,
    <<126557, 126557>>, <<126559, 126559>>, <<126561, 126562>>,
    <<126564, 126564>>, <<126567, 126570>>, <<126572, 126578>>,
    <<126580, 126583>>, <<126585, 126588>>, <<126590, 126590>>,
    <<126592, 126601>>, <<126603, 126619>>, <<126625, 126627>>,
    <<126629, 126633>>, <<126635, 126651>>, <<127232, 127244>>,
    <<130032, 130041>>, <<131072, 173791>>, <<173824, 177976>>,
    <<177984, 178205>>, <<178208, 183969>>, <<183984, 191456>>,
    <<194560, 195101>>, <<196608, 201546>> >>

\* regex \w: str.isalnum or the underscore
IsWord(c) ==
    IF c < 128
    THEN \/ 48 <= c /\ c <= 57
         \/ 65 <= c /\ c <= 90
         \/ 97 <= c /\ c <= 122
         \/ c = 95
    ELSE InRanges(c, AlnumRanges, 1, Len(AlnumRanges))

\* str.isspace / regex \s / the characters str.strip removes
Whitespace ==
    {9, 10, 11, 12, 13, 28, 29, 30, 31, 32, 133, 160, 5760} \cup (8192..8202)
        \cup {8232, 8233, 8239, 8287, 12288}

\* the characters str.splitlines breaks a text at
LineBreaks == {10, 11, 12, 13, 28, 29, 30, 133, 8232, 8233}

\* c.lower() == p for an ASCII character p: c is p unless p is a capital,
\* or c is the capital of p, or c is the Kelvin sign and p is "k"
LowerIs(c, p) ==
    \/ c = p /\ ~(65 <= p /\ p <= 90)
    \/ 97 <= p /\ p <= 122 /\ c = p - 32
    \/ p = 107 /\ c = 8490

\* s.lower() == w for an ASCII word w
EqualsIgnoringCase(s, w) ==
    /\ Len(s) = Len(w)
    /\ \A k \in 1..Len(w) : LowerIs(s[k], w[k])

\* the value of a decimal digit: its place in its run of ten
DigitVal(c) ==
    IF c < 128 THEN c - 48
    ELSE (c - DecimalRanges[CHOOSE k \in 1..Len(DecimalRanges) :
                               DecimalRanges[k][1] <= c /\ c <= DecimalRanges[k][2]][1]) % 10

\* int() of a string of decimal digits
RECURSIVE ToInt(_)
ToInt(s) ==
    IF Len(s) = 0 THEN 0
    ELSE 10 * ToInt(SubSeq(s, 1, Len(s) - 1)) + DigitVal(s[Len(s)])

Min(S) == CHOOSE x \in S : \A y \in S : x <= y

(***************************************************************************)
(* str.strip, str.splitlines                                               *)
(***************************************************************************)
RECURSIVE LStrip(_)
LStrip(s) ==
    IF Len(s) > 0 /\ s[1] \in Whitespace THEN LStrip(Tail(s)) ELSE s

RECURSIVE RStrip(_)
RStrip(s) ==
    IF Len(s) > 0 /\ s[Len(s)] \in Whitespace
    THEN RStrip(SubSeq(s, 1, Len(s) - 1))
    ELSE s

Strip(s) == RStrip(LStrip(s))

\* t.splitlines(): the pieces between line breaks ("\r\n" counts as one break;
\* no empty piece is produced after a final break)
RECURSIVE SplitLinesFrom(_, _, _)
SplitLinesFrom(t, i, cur) ==
    IF i > Len(t) THEN (IF Len(cur) > 0 THEN <<cur>> ELSE <<>>)
    ELSE IF t[i] \in LineBreaks
         THEN LET j == IF t[i] = Ord["\r"] /\ i < Len(t) /\ t[i + 1] = Ord["\n"]
                       THEN i + 2 ELSE i + 1
              IN  <<cur>> \o SplitLinesFrom(t, j, <<>>)
         ELSE SplitLinesFrom(t, i + 1, Append(cur, t[i]))

SplitLines(t) == SplitLinesFrom(t, 1, <<>>)

\* [ln.strip() for ln in t.splitlines() if ln.strip()]
RECURSIVE StripNonBlank(_)
StripNonBlank(ls) ==
    IF Len(ls) = 0 THEN <<>>
    ELSE LET h == Strip(Head(ls))
         IN  (IF Len(h) > 0 THEN <<h>> ELSE <<>>) \o StripNonBlank(Tail(ls))

NonBlankLines(t) == StripNonBlank(SplitLines(t))

(***************************************************************************)
(* Regular-expression primitives                                           *)
(***************************************************************************)
IsWordAt(t, i) == i >= 1 /\ i <= Len(t) /\ IsWord(t[i])

\* \b at the gap before position i (i in 1..Len(t)+1)
WordBoundary(t, i) == IsWordAt(t, i - 1) # IsWordAt(t, i)

\* t[i .. i+n-1] exist and are all digits
DigitsAt(t, i, n) ==
    /\ i >= 1
    /\ i + n - 1 <= Len(t)
    /\ \A k \in i..(i + n - 1) : IsDecimal(t[k])

CharIn(t, i, S) == i >= 1 /\ i <= Len(t) /\ t[i] \in S

\* the result of a search that found nothing
NoMatch == [found |-> FALSE]

\* values are handed on as operator parameters: m_date, m_time of the source
\* become the parameters of the operator that models the code after them

(***************************************************************************)
(* The date pattern  \b(\d{1,2})[\/.](\d{1,2})[\/.](\d{2,4})\b             *)
(* Each shape is <<digits of group 1, of group 2, of group 3>>, in the     *)
(* order the greedy quantifiers try them.                                  *)
(***************************************************************************)
DateSeps == {Ord["/"], Ord["."]}

DateShapes ==
    <<  <<2, 2, 4>>, <<2, 2, 3>>, <<2, 2, 2>>,
        <<2, 1, 4>>, <<2, 1, 3>>, <<2, 1, 2>>,
        <<1, 2, 4>>, <<1, 2, 3>>, <<1, 2, 2>>,
        <<1, 1, 4>>, <<1, 1, 3>>, <<1, 1, 2>>  >>

DateFits(t, i, sh) ==
    /\ WordBoundary(t, i)
    /\ DigitsAt(t, i, sh[1])
    /\ CharIn(t, i + sh[1], DateSeps)
    /\ DigitsAt(t, i + sh[1] + 1, sh[2])
    /\ CharIn(t, i + sh[1] + 1 + sh[2], DateSeps)
    /\ DigitsAt(t, i + sh[1] + sh[2] + 2, sh[3])
    /\ WordBoundary(t, i + sh[1] + sh[2] + 2 + sh[3])

\* the match object of shape sh at i: the groups, the separators, the span
DateMatchShaped(t, i, sh) ==
    [found |-> TRUE,
     start |-> i,
     end   |-> i + sh[1] + sh[2] + sh[3] + 2,
     g1    |-> SubSeq(t, i, i + sh[1] - 1),
     g2    |-> SubSeq(t, i + sh[1] + 1, i + sh[1] + sh[2]),
     g3    |-> SubSeq(t, i + sh[1] + sh[2] + 2, i + sh[1] + sh[2] + sh[3] + 1),
     sep1  |-> t[i + sh[1]],
     sep2  |-> t[i + sh[1] + sh[2] + 1]]

\* ok: the shapes that fit at i; the first tried wins
DateMatchAmong(t, i, ok) ==
    IF ok = {} THEN NoMatch ELSE DateMatchShaped(t, i, DateShapes[Min(ok)])

DateMatchAt(t, i) ==
    DateMatchAmong(t, i, {k \in 1..Len(DateShapes) : DateFits(t, i, DateShapes[k])})

\* at: the positions that have a match; re.search takes the leftmost
DateLeftmost(t, at) == IF at = {} THEN NoMatch ELSE DateMatchAt(t, Min(at))

SearchDate(t) == DateLeftmost(t, {i \in 1..Len(t) : DateMatchAt(t, i).found})

(***************************************************************************)
(* The hour alternation  ([01]?\d|2[0-3])  and the minute  ([0-5]\d)       *)
(* Hour alternatives in the order tried: [01]\d, \d, 2[0-3].               *)
(***************************************************************************)
TimeSeps == {Ord["."], Ord[":"]}

HourLen(alt) == IF alt = 2 THEN 1 ELSE 2

HourFits(t, p, alt) ==
    CASE alt = 1 -> CharIn(t, p, {Ord["0"], Ord["1"]}) /\ DigitsAt(t, p + 1, 1)
      [] alt = 2 -> DigitsAt(t, p, 1)
      [] alt = 3 -> /\ CharIn(t, p, {Ord["2"]})
                    /\ CharIn(t, p + 1, {Ord["0"], Ord["1"], Ord["2"], Ord["3"]})

MinuteFits(t, q) ==
    /\ CharIn(t, q, {Ord["0"], Ord["1"], Ord["2"], Ord["3"], Ord["4"], Ord["5"]})
    /\ DigitsAt(t, q + 1, 1)

\* ([01]?\d|2[0-3])(?:[.:]([0-5]\d))?\b  at p: the optional group is tried
\* first with the minute, then empty.  Shape = <<hour alternative, minute?>>.
MarkedShapes ==
    <<  <<1, TRUE>>, <<1, FALSE>>, <<2, TRUE>>, <<2, FALSE>>,
        <<3, TRUE>>, <<3, FALSE>>  >>

\* the rest of the pattern from q, the position after the hour
MarkedTailFits(t, q, withMinute) ==
    IF withMinute
    THEN CharIn(t, q, TimeSeps) /\ MinuteFits(t, q + 1) /\ WordBoundary(t, q + 3)
    ELSE WordBoundary(t, q)

MarkedFits(t, p, sh) ==
    HourFits(t, p, sh[1]) /\ MarkedTailFits(t, p + HourLen(sh[1]), sh[2])

\* number of whitespace characters from position p on (greedy \s*)
RECURSIVE WsRun(_, _)
WsRun(t, p) == IF CharIn(t, p, Whitespace) THEN 1 + WsRun(t, p + 1) ELSE 0

\* the match object: hour = int(group 1), minute = int(group 2 or 0); q is
\* the position after the hour
TimeMatch(t, i, p, q, withMinute) ==
    [found  |-> TRUE,
     start  |-> i,
     hour   |-> ToInt(SubSeq(t, p, q - 1)),
     minute |-> IF withMinute THEN ToInt(SubSeq(t, q + 1, q + 2)) ELSE 0]

MarkedMatchShaped(t, i, p, sh) == TimeMatch(t, i, p, p + HourLen(sh[1]), sh[2])

\* the hour starts at p: the first shape tried that fits, if any
MarkedMatchFrom(t, i, p) ==
    MarkedMatchShaped(t, i, p,
        MarkedShapes[Min({j \in 1..Len(MarkedShapes) :
                             MarkedFits(t, p, MarkedShapes[j])})])

\* ws: the numbers of whitespace characters after which an hour fits; the
\* greedy \s* keeps the most
MarkedMatchAfter(t, i, p0, ws) ==
    IF ws = {} THEN NoMatch
    ELSE MarkedMatchFrom(t, i, p0 + (CHOOSE x \in ws : \A y \in ws : y <= x))

MarkerFits(t, i, marker) ==
    /\ WordBoundary(t, i)
    /\ \A k \in 1..Len(marker) : CharIn(t, i + k - 1, marker[k])

\* \b <marker> \s* <hour>(<sep><minute>)? \b  at position i; marker is a
\* sequence of sets of characters (one set per marker character) and p0 the
\* position after it
MarkerMatchBehind(t, i, marker, p0) ==
    IF MarkerFits(t, i, marker)
    THEN MarkedMatchAfter(t, i, p0,
            {w \in 0..WsRun(t, p0) :
                \E k \in 1..Len(MarkedShapes) : MarkedFits(t, p0 + w, MarkedShapes[k])})
    ELSE NoMatch

MarkerMatchAt(t, i, marker) == MarkerMatchBehind(t, i, marker, i + Len(marker))

MarkerLeftmost(t, marker, at) ==
    IF at = {} THEN NoMatch ELSE MarkerMatchAt(t, Min(at), marker)

SearchMarker(t, marker) ==
    MarkerLeftmost(t, marker, {i \in 1..Len(t) : MarkerMatchAt(t, i, marker).found})

\* r"\bh\s*..." with re.IGNORECASE (bot.py, part_000) and r"\b[hH]\s*..."
\* (wa_webhook.py) accept the same marker characters
MarkerH == << {Ord["h"], Ord["H"]} >>

\* r"\bore\s*..." with re.IGNORECASE
MarkerOre == << {Ord["o"], Ord["O"]}, {Ord["r"], Ord["R"]}, {Ord["e"], Ord["E"]} >>

(***************************************************************************)
(* The bare time pattern  \b([01]?\d|2[0-3])[.:]([0-5]\d)\b                *)
(***************************************************************************)
BareTailFits(t, q) ==
    CharIn(t, q, TimeSeps) /\ MinuteFits(t, q + 1) /\ WordBoundary(t, q + 3)

BareFits(t, i, alt) ==
    /\ WordBoundary(t, i)
    /\ HourFits(t, i, alt)
    /\ BareTailFits(t, i + HourLen(alt))

BareMatchAmong(t, i, ok) ==
    IF ok = {} THEN NoMatch
    ELSE TimeMatch(t, i, i, i + HourLen(Min(ok)), TRUE)

BareMatchAt(t, i) == BareMatchAmong(t, i, {alt \in 1..3 : BareFits(t, i, alt)})

BareLeftmost(t, at) == IF at = {} THEN NoMatch ELSE BareMatchAt(t, Min(at))

SearchBare(t) == BareLeftmost(t, {i \in 1..Len(t) : BareMatchAt(t, i).found})

(***************************************************************************)
(* datetime.datetime and datetime.timedelta, as far as the parsers use     *)
(* them: construction with range checks, and datetime + timedelta through  *)
(* the proleptic Gregorian ordinal (day 1 is 0001-01-01).                  *)
(***************************************************************************)
IsLeap(y) == y % 4 = 0 /\ (y % 100 # 0 \/ y % 400 = 0)

DaysInMonth(y, m) ==
    IF m = 2 THEN (IF IsLeap(y) THEN 29 ELSE 28)
    ELSE IF m \in {4, 6, 9, 11} THEN 30 ELSE 31

RECURSIVE DaysBeforeMonth(_, _)
DaysBeforeMonth(y, m) ==
    IF m <= 1 THEN 0 ELSE DaysBeforeMonth(y, m - 1) + DaysInMonth(y, m - 1)

\* days before January 1st of year y
DaysBeforeYear(y) ==
    (y - 1) * 365 + ((y - 1) \div 4) - ((y - 1) \div 100) + ((y - 1) \div 400)

\* date.toordinal()
ToOrdinal(y, m, d) == DaysBeforeYear(y) + DaysBeforeMonth(y, m) + d

MaxOrdinal == ToOrdinal(9999, 12, 31)

\* date.fromordinal(): the year, then the month holding day r of the year
YearOfOrdinal(n) ==
    CHOOSE y \in (((n - 1) \div 366) + 1)..(((n - 1) \div 365) + 1) :
        DaysBeforeYear(y) < n /\ n <= DaysBeforeYear(y + 1)

MonthOfYearDay(y, r) ==
    CHOOSE m \in 1..12 :
        DaysBeforeMonth(y, m) < r /\ r <= DaysBeforeMonth(y, m) + DaysInMonth(y, m)

YmdInMonth(y, m, r) == [year |-> y, month |-> m, day |-> r - DaysBeforeMonth(y, m)]

FromOrdinal(n) ==
    LET InYear(y, r) == YmdInMonth(y, MonthOfYearDay(y, r), r)
        OfYear(y) == InYear(y, n - DaysBeforeYear(y))
    IN  OfYear(YearOfOrdinal(n))

\* datetime.datetime(year, month, day, hour, minute): ValueError when a
\* field is out of range
NewDateTime(y, m, d, hh, mm) ==
    IF /\ y \in 1..9999
       /\ m \in 1..12
       /\ d >= 1 /\ d <= DaysInMonth(y, m)
       /\ hh \in 0..23
       /\ mm \in 0..59
    THEN [ok |-> TRUE,
          dt |-> [year |-> y, month |-> m, day |-> d, hour |-> hh,
                  minute |-> mm, second |-> 0, microsecond |-> 0]]
    ELSE [ok |-> FALSE, exc |-> "ValueError"]

\* a timedelta, normalised as the library keeps it:
\* 0 <= seconds < 86400, 0 <= microseconds < 1000000, days of either sign
Delta(days, seconds, micros) ==
    [days |-> days, seconds |-> seconds, microseconds |-> micros]

NormDelta(days, seconds, micros) ==
    LET CarrySeconds(sec, us) == Delta(days + (sec \div 86400), sec % 86400, us)
    IN  CarrySeconds(seconds + (micros \div 1000000), micros % 1000000)

NegDelta(d) == NormDelta(0 - d.days, 0 - d.seconds, 0 - d.microseconds)

\* another length, to see that the properties tell the two apart
TwoHours == Delta(0, 7200, 0)

\* datetime.timedelta(hours=1)
OneHour == Delta(0, 3600, 0)

SecondOfDay(dt) == dt.hour * 3600 + dt.minute * 60 + dt.second

\* the datetime of day ymd, second s of the day, microsecond us
DateTimeOf(ymd, s, us) ==
    [year |-> ymd.year, month |-> ymd.month, day |-> ymd.day,
     hour |-> s \div 3600, minute |-> (s % 3600) \div 60,
     second |-> s % 60, microsecond |-> us]

\* OverflowError when the day leaves 1..MaxOrdinal
DateTimeOfDelta(d) ==
    IF d.days >= 1 /\ d.days <= MaxOrdinal
    THEN [ok |-> TRUE, dt |-> DateTimeOf(FromOrdinal(d.days), d.seconds, d.microseconds)]
    ELSE [ok |-> FALSE, exc |-> "OverflowError"]

\* datetime + timedelta
AddDelta(dt, dl) ==
    DateTimeOfDelta(NormDelta(ToOrdinal(dt.year, dt.month, dt.day) + dl.days,
                              SecondOfDay(dt) + dl.seconds,
                              dt.microsecond + dl.microseconds))

\* a - b for two datetimes, as a normalised timedelta
SubDateTime(a, b) ==
    NormDelta(ToOrdinal(a.year, a.month, a.day) - ToOrdinal(b.year, b.month, b.day),
              SecondOfDay(a) - SecondOfDay(b),
              a.microsecond - b.microsecond)

(***************************************************************************)
(* Parser results.  A parse returns None, returns a draft, or lets an      *)
(* exception escape.                                                       *)
(***************************************************************************)
None == [kind |-> "None"]

Raised(e) == [kind |-> "raise", exc |-> e]

Draft(title, location, description, start, end) ==
    [kind |-> "draft", title |-> title, location |-> location,
     description |-> description, start_dt |-> start, end_dt |-> end]

\* the century added to every year, to see that the properties notice
NormalizeEveryYear(y) == y + 2000

\* if year < 100: year += 2000
NormalizeYear(y) == IF y < 100 THEN y + 2000 ELSE y

\* the datetime a constructor call gave, or the exception that escapes
StartOf(r) == IF r.ok THEN [kind |-> "dt", dt |-> r.dt] ELSE Raised(r.exc)

\* day, month, year of the date match and
\* datetime.datetime(year, month, day, hour, minute) of a time match
BuildStart(m_date, m_time) ==
    StartOf(NewDateTime(NormalizeYear(ToInt(m_date.g3)), ToInt(m_date.g2),
                        ToInt(m_date.g1), m_time.hour, m_time.minute))

\* the first of two searches that found something
OrElse(m1, m2) == IF m1.found THEN m1 ELSE m2

\* no date: None; no time by any pattern: None
ExtractWith(m_date, m_time) ==
    IF ~m_date.found THEN None
    ELSE IF ~m_time.found THEN None
    ELSE BuildStart(m_date, m_time)

\* the bare pattern tried first, to see that the properties notice
TimeSearchBareFirst(t) == OrElse(SearchBare(t), SearchMarker(t, MarkerH))

(***************************************************************************)
(* bot.py  _extract_datetime: the "h" marker first, then the bare time     *)
(***************************************************************************)
TimeSearchBot(t) == OrElse(SearchMarker(t, MarkerH), SearchBare(t))

ExtractDatetimeStripped(t) == ExtractWith(SearchDate(t), TimeSearchBot(t))

ExtractDatetimeBot(text) == ExtractDatetimeStripped(Strip(text))

(***************************************************************************)
(* wa_webhook.py  _extract_datetime: "h", then "ore", then the bare time   *)
(***************************************************************************)
TimeSearchWa(t) ==
    OrElse(SearchMarker(t, MarkerH), OrElse(SearchMarker(t, MarkerOre), SearchBare(t)))

ExtractDatetimeWa(text) == ExtractWith(SearchDate(text), TimeSearchWa(text))

(***************************************************************************)
(* Title, location, description                                            *)
(***************************************************************************)
NoWhitespace(c) == Len(c) > 0 /\ \A k \in 1..Len(c) : c[k] \notin Whitespace

\* re.match(r"^[^\s]+$", candidate): one or more non-whitespace characters up
\* to the end, or up to a single final newline
SingleWord(c) ==
    \/ NoWhitespace(c)
    \/ Len(c) > 0 /\ c[Len(c)] = Ord["\n"] /\ NoWhitespace(SubSeq(c, 1, Len(c) - 1))

\* re.search(r"\d", candidate)
HasDigit(c) == \E k \in 1..Len(c) : IsDecimal(c[k])

\* bot.py 130-139, wa_webhook.py 95-101: "Evento" is the title of a text
\* without a line
TitleOf(lines) ==
    IF Len(lines) > 0 THEN lines[1] ELSE Codes(<<"E", "v", "e", "n", "t", "o">>)

LocationOf(lines) ==
    IF Len(lines) >= 2 /\ SingleWord(lines[2]) /\ ~HasDigit(lines[2])
    THEN lines[2]
    ELSE <<>>

\* the draft of text t whose non-blank lines are lines; e is start + 1 hour
\* or the OverflowError of the addition
DraftOfLines(t, lines, start, e) ==
    IF ~e.ok THEN Raised(e.exc)
    ELSE Draft(TitleOf(lines), LocationOf(lines), t, start, e.dt)

\* the part of parse_simple_event / parse_event after the start was found
FinishDraft(t, start) ==
    DraftOfLines(t, NonBlankLines(t), start, AddDelta(start, OneHour))

\* start_dt is what _extract_datetime gave
ParseWith(t, start_dt) ==
    IF Len(t) = 0 THEN None
    ELSE IF start_dt.kind # "dt" THEN start_dt
    ELSE FinishDraft(t, start_dt.dt)

(***************************************************************************)
(* bot.py  parse_simple_event                                              *)
(***************************************************************************)
ParseStrippedBot(t) == ParseWith(t, ExtractDatetimeBot(t))

ParseSimpleEventBot(text) == ParseStrippedBot(Strip(text))

(***************************************************************************)
(* wa_webhook.py  parse_event                                              *)
(***************************************************************************)
ParseStrippedWa(t) == ParseWith(t, ExtractDatetimeWa(t))

ParseEventWa(text) == ParseStrippedWa(Strip(text))

(***************************************************************************)
(* String helpers of the legacy "evento:" format (unnamed/part_000)        *)
(***************************************************************************)
\* s.split(c): the pieces between occurrences of c, empty pieces kept
RECURSIVE SplitFrom(_, _, _, _)
SplitFrom(s, c, i, cur) ==
    IF i > Len(s) THEN <<cur>>
    ELSE IF s[i] = c THEN <<cur>> \o SplitFrom(s, c, i + 1, <<>>)
    ELSE SplitFrom(s, c, i + 1, Append(cur, s[i]))

Split(s, c) == SplitFrom(s, c, 1, <<>>)

\* s.replace(a, b) for single characters
Replace(s, a, b) == [k \in 1..Len(s) |-> IF s[k] = a THEN b ELSE s[k]]

\* t.lower().startswith(prefix)
LowerStartsWith(t, prefix) ==
    /\ Len(t) >= Len(prefix)
    /\ EqualsIgnoringCase(SubSeq(t, 1, Len(prefix)), prefix)

LegacyPrefix == Codes(<<"e", "v", "e", "n", "t", "o", ":">>)

\* int() and float() read the decimal digits of every script
AsciiDecimals(s) ==
    [k \in 1..Len(s) |-> IF IsDecimal(s[k]) THEN Ord["0"] + DigitVal(s[k]) ELSE s[k]]

\* digits, single underscores allowed between digits (Python numeric literals)
DigitPart(s) ==
    /\ Len(s) > 0
    /\ IsDecimal(s[1])
    /\ IsDecimal(s[Len(s)])
    /\ \A k \in 1..Len(s) : IsDecimal(s[k]) \/ s[k] = Ord["_"]
    /\ \A k \in 1..(Len(s) - 1) : ~(s[k] = Ord["_"] /\ s[k + 1] = Ord["_"])

DropUnderscores(s) == SelectSeq(s, LAMBDA c : c # Ord["_"])

DropLeadingZeros(s) ==
    IF \A k \in 1..Len(s) : s[k] = Ord["0"] THEN <<>>
    ELSE SubSeq(s, Min({k \in 1..Len(s) : s[k] # Ord["0"]}), Len(s))

IsNegative(s) == Len(s) > 0 /\ s[1] = Ord["-"]

Unsigned(s) == IF Len(s) > 0 /\ s[1] \in {Ord["+"], Ord["-"]} THEN Tail(s) ELSE s

\* the value of significant digits ds, or cap when there are more than n
CappedInt(ds, n, cap) == IF Len(ds) > n THEN cap ELSE ToInt(ds)

\* what int() and float() skip around a number: the Unicode whitespace
\* except the separators U+001C..U+001F, which str.strip removes and they
\* do not
NumberSpace == Whitespace \ (28..31)

NumberStrip(s) ==
    IF \A k \in 1..Len(s) : s[k] \in NumberSpace THEN <<>>
    ELSE SubSeq(s, Min({k \in 1..Len(s) : s[k] \notin NumberSpace}),
                CHOOSE k \in 1..Len(s) :
                    /\ s[k] \notin NumberSpace
                    /\ \A j \in (k + 1)..Len(s) : s[j] \in NumberSpace)

Signed(neg, mag) == IF neg THEN 0 - mag ELSE mag

\* int(x) of a stripped string s: a sign is accepted.  More than 4300
\* digits, leading zeros counted and underscores not, are a ValueError
\* (sys.int_max_str_digits).  A value of more than nine significant digits
\* is reported as 1000000000: it is above every range datetime accepts,
\* whatever it is.
PyIntStripped(s) ==
    IF DigitPart(Unsigned(s)) /\ Len(DropUnderscores(Unsigned(s))) <= 4300
    THEN [ok |-> TRUE,
          val |-> Signed(IsNegative(s),
                         CappedInt(DropLeadingZeros(DropUnderscores(Unsigned(s))),
                                   9, 1000000000))]
    ELSE [ok |-> FALSE]

\* int(x): surrounding whitespace is accepted, and a decimal digit of any
\* script counts as the ASCII digit of its value
PyInt(x) == PyIntStripped(NumberStrip(AsciiDecimals(x)))

(***************************************************************************)
(* Natural numbers beyond the machine word, for the arithmetic of float()  *)
(* and datetime.timedelta: a number is its limbs in base 1024, the lowest  *)
(* first; limbs of 0 at the top change nothing.                            *)
(***************************************************************************)
Limb(x, i) == IF i >= 1 /\ i <= Len(x) THEN x[i] ELSE 0

\* x without its limbs of 0 at the top
Trim(x) ==
    IF \A i \in 1..Len(x) : x[i] = 0 THEN <<>>
    ELSE SubSeq(x, 1, CHOOSE i \in 1..Len(x) :
                          x[i] # 0 /\ \A j \in (i + 1)..Len(x) : x[j] = 0)

\* the number whose limbs, not yet below 1024 but below 2^30, are raw.
\* Spilled: limb k once every entry has handed the part above its low ten
\* bits to the two entries above it; the same once more leaves entries of
\* at most 1025; Ripple: the last carries, one into limb k when the nearest
\* entry below it that is not 1023 is 1024 or more (d: how many entries of
\* 1023 lie between).
Carry(raw) ==
    LET Spilled(k) ==
            (Limb(raw, k) % 1024) + ((Limb(raw, k - 1) \div 1024) % 1024)
                + (Limb(raw, k - 2) \div 1048576)
        Ripple(u) ==
            [k \in 1..Len(u) |->
                (u[k] + (IF Limb(u, k - 1 - (CHOOSE d \in 0..(k - 1) :
                                                 /\ d = k - 1 \/ u[k - 1 - d] # 1023
                                                 /\ \A m \in (k - d)..(k - 1) :
                                                        u[m] = 1023))
                            >= 1024
                         THEN 1 ELSE 0)) % 1024]
    IN  Trim(Ripple([k \in 1..(Len(raw) + 2) |->
                        (Spilled(k) % 1024) + (Spilled(k - 1) \div 1024)]))

\* a * b
Mul(a, b) ==
    LET RECURSIVE SumOver(_, _, _)
        \* f[lo] + ... + f[hi]
        SumOver(f, lo, hi) ==
            IF lo = hi THEN f[lo]
            ELSE SumOver(f, lo, (lo + hi) \div 2)
                 + SumOver(f, ((lo + hi) \div 2) + 1, hi)
    IN  IF Len(a) = 0 \/ Len(b) = 0 THEN <<>>
        ELSE Carry([k \in 1..(Len(a) + Len(b)) |->
                       SumOver([i \in 1..Len(a) |-> a[i] * Limb(b, k + 1 - i)],
                               1, Len(a))])

\* the number of bits of x
BitLen(x) ==
    IF Len(Trim(x)) = 0 THEN 0
    ELSE 10 * (Len(Trim(x)) - 1)
         + (CHOOSE b \in 1..10 :
                2^(b - 1) <= x[Len(Trim(x))] /\ x[Len(Trim(x))] < 2^b)

\* x * 2^n; x itself for n below 1
ShiftLeft(x, n) ==
    IF n < 1 THEN x
    ELSE [i \in 1..(Len(x) + (n \div 10) + 1) |->
             ((Limb(x, i - (n \div 10)) * 2^(n % 10)) % 1024)
             + ((Limb(x, i - (n \div 10) - 1) * 2^(n % 10)) \div 1024)]

\* x \div 2^n
ShiftRight(x, n) ==
    [i \in 1..Len(x) |->
        (Limb(x, i + (n \div 10)) \div 2^(n % 10))
        + ((Limb(x, i + (n \div 10) + 1) % 2^(n % 10)) * 2^(10 - (n % 10)))]

\* 10^m
RECURSIVE TenTo(_)
TenTo(m) ==
    IF m < 3 THEN <<10^m>>
    ELSE Mul(TenTo(m \div 2), TenTo(m - (m \div 2)))

\* the number written with the decimal digits ds[lo..hi]
RECURSIVE ValueOf(_, _, _)
ValueOf(ds, lo, hi) ==
    LET Add(a, b) ==
            IF Len(a) = 0 THEN b
            ELSE IF Len(b) = 0 THEN a
            ELSE Carry([i \in 1..(Len(a) + Len(b)) |-> Limb(a, i) + Limb(b, i)])
    IN  IF hi - lo < 3 THEN Trim(<<ToInt(SubSeq(ds, lo, hi))>>)
        ELSE Add(Mul(ValueOf(ds, lo, (lo + hi) \div 2),
                     TenTo(hi - ((lo + hi) \div 2))),
                 ValueOf(ds, ((lo + hi) \div 2) + 1, hi))

(***************************************************************************)
(* float(x) of a string: a decimal literal with optional fraction and      *)
(* exponent, or inf / infinity / nan.  The result is the IEEE 754 double   *)
(* nearest to the literal, a tie to the even mantissa, kept as             *)
(* mant * 2^exp; a literal too big for a double gives infinity.            *)
(***************************************************************************)
\* The double of 0.ds * 10^point, ds significant digits without leading
\* zeros.  Digits after the 800th only count as a cut-off part: no double
\* and no midpoint of two doubles has that many.
\*   Finite:      mant * 2^exp as a double
\*   Less:        a < b
\*   Quotient:    acc with the bits lo..hi set, from the top, as far as
\*                m * t <= n allows
\*   Nearest:     m, or m + 1 when (n + a cut-off part) / t is nearer to it:
\*                above m + 1/2, or at m + 1/2 with m odd
\*   OfScaled:    the double nearest to (n + a cut-off part) / t * 2^exp,
\*                n / t below 2^53
\*   OfBits:      the same for a ratio of bits binary digits before the
\*                point: 53 bits of mantissa, fewer below 2^-1022
\*   OfRatio:     the double nearest to (n + a cut-off part) / t
\*   OfKept:      the double of 0.kept * 10^point (+ a cut-off part)
DoubleOfDigits(neg, ds, point) ==
    LET Finite(mant, exp) ==
            IF BitLen(mant) + exp > 1024
            THEN [ok |-> TRUE, kind |-> "inf", neg |-> neg]
            ELSE IF BitLen(mant) = 0
            THEN [ok |-> TRUE, kind |-> "num", neg |-> neg, mant |-> <<>>, exp |-> 0]
            ELSE IF BitLen(mant) > 53
            THEN [ok |-> TRUE, kind |-> "num", neg |-> neg,
                  mant |-> Trim(ShiftRight(mant, 1)), exp |-> exp + 1]
            ELSE [ok |-> TRUE, kind |-> "num", neg |-> neg,
                  mant |-> mant, exp |-> exp]
        Less(a, b) ==
            \E i \in 1..Len(b) :
                /\ Limb(a, i) < b[i]
                /\ \A j \in (i + 1)..(Len(a) + Len(b)) : Limb(a, j) = Limb(b, j)
        RECURSIVE Quotient(_, _, _, _, _)
        Quotient(n, t, lo, hi, acc) ==
            IF Len(acc) = 0 THEN acc
            ELSE IF lo < hi
            THEN Quotient(n, t, lo, (lo + hi) \div 2,
                          Quotient(n, t, ((lo + hi) \div 2) + 1, hi, acc))
            ELSE IF Less(n, Mul([acc EXCEPT ![(lo \div 10) + 1] = @ + 2^(lo % 10)], t))
            THEN acc
            ELSE [acc EXCEPT ![(lo \div 10) + 1] = @ + 2^(lo % 10)]
        Nearest(m, half, n, cut, exp) ==
            Finite(Carry([m EXCEPT ![1] = @ + (IF \/ Less(half, n)
                                                  \/ /\ ~Less(n, half)
                                                     /\ cut \/ m[1] % 2 = 1
                                               THEN 1 ELSE 0)]),
                   exp)
        OfQuotient(m, n, t, cut, exp) ==
            Nearest(m, Mul([i \in 1..6 |-> m[i] * 2 + (IF i = 1 THEN 1 ELSE 0)], t),
                    ShiftLeft(n, 1), cut, exp)
        OfScaled(n, t, cut, exp) ==
            OfQuotient(Quotient(n, t, 0, 52, [i \in 1..6 |-> 0]), n, t, cut, exp)
        OfBits(n, t, cut, bits) ==
            IF bits - 53 < 0 - 1074
            THEN OfScaled(ShiftLeft(n, 1074), t, cut, 0 - 1074)
            ELSE OfScaled(ShiftLeft(n, 53 - bits), ShiftLeft(t, bits - 53),
                          cut, bits - 53)
        OfRatio(n, t, cut) ==
            OfBits(n, t, cut,
                   BitLen(n) - BitLen(t)
                   + (IF Less(ShiftLeft(n, BitLen(t) - BitLen(n)),
                              ShiftLeft(t, BitLen(n) - BitLen(t)))
                      THEN 0 ELSE 1))
        OfKept(kept, cut) ==
            IF point >= Len(kept)
            THEN OfRatio(Mul(ValueOf(kept, 1, Len(kept)), TenTo(point - Len(kept))),
                         <<1>>, cut)
            ELSE OfRatio(ValueOf(kept, 1, Len(kept)), TenTo(Len(kept) - point), cut)
    IN  IF Len(ds) = 0 \/ point < 0 - 330 THEN Finite(<<>>, 0)
        ELSE IF point > 310 THEN [ok |-> TRUE, kind |-> "inf", neg |-> neg]
        ELSE OfKept(SubSeq(ds, 1, CHOOSE k \in 1..Len(ds) :
                                      /\ k <= 800
                                      /\ ds[k] # Ord["0"]
                                      /\ \A j \in (k + 1)..Len(ds) :
                                             j <= 800 => ds[j] = Ord["0"]),
                    \E k \in 801..Len(ds) : ds[k] # Ord["0"])

IndexOf(s, S) ==
    IF \E k \in 1..Len(s) : s[k] \in S
    THEN Min({k \in 1..Len(s) : s[k] \in S})
    ELSE 0

\* the exponent of a literal.  One of more than nine significant digits is
\* reported as +-1000000000: no mantissa of a text brings such a number
\* back into the range of a double.
ExpVal(e) ==
    Signed(IsNegative(e),
           CappedInt(DropLeadingZeros(DropUnderscores(Unsigned(e))), 9, 1000000000))

\* ip "." fp "e" expo, each possibly empty; hasExp: an "e" is present
FloatOfParts(neg, ip, fp, hasExp, expo) ==
    IF /\ Len(ip) = 0 \/ DigitPart(ip)
       /\ Len(fp) = 0 \/ DigitPart(fp)
       /\ Len(ip) + Len(fp) > 0
       /\ ~hasExp \/ DigitPart(Unsigned(expo))
    THEN DoubleOfDigits(neg,
             DropLeadingZeros(DropUnderscores(ip) \o DropUnderscores(fp)),
             Len(DropUnderscores(ip)) + (IF hasExp THEN ExpVal(expo) ELSE 0)
                 - (Len(DropUnderscores(ip) \o DropUnderscores(fp))
                    - Len(DropLeadingZeros(DropUnderscores(ip) \o DropUnderscores(fp)))))
    ELSE [ok |-> FALSE]

\* mantissa mant with the "." at dot (0: none)
FloatOfMantissa(neg, mant, dot, hasExp, expo) ==
    IF dot = 0 THEN FloatOfParts(neg, mant, <<>>, hasExp, expo)
    ELSE FloatOfParts(neg, SubSeq(mant, 1, dot - 1),
                      SubSeq(mant, dot + 1, Len(mant)), hasExp, expo)

\* unsigned literal body with the "e" at ePos (0: none)
FloatOfBody(neg, body, ePos) ==
    IF ePos = 0
    THEN FloatOfMantissa(neg, body, IndexOf(body, {Ord["."]}), FALSE, <<>>)
    ELSE FloatOfMantissa(neg, SubSeq(body, 1, ePos - 1),
                         IndexOf(SubSeq(body, 1, ePos - 1), {Ord["."]}),
                         TRUE, SubSeq(body, ePos + 1, Len(body)))

FloatOfUnsigned(neg, body) ==
    IF \E w \in {Codes(<<"i", "n", "f">>),
                  Codes(<<"i", "n", "f", "i", "n", "i", "t", "y">>),
                  Codes(<<"n", "a", "n">>)} : EqualsIgnoringCase(body, w)
    THEN [ok |-> TRUE,
          kind |-> IF EqualsIgnoringCase(body, Codes(<<"n", "a", "n">>))
                   THEN "nan" ELSE "inf",
          neg |-> neg]
    ELSE FloatOfBody(neg, body, IndexOf(body, {Ord["e"], Ord["E"]}))

PyFloatStripped(s) == FloatOfUnsigned(IsNegative(s), Unsigned(s))

PyFloat(x) == PyFloatStripped(NumberStrip(AsciiDecimals(x)))

\* datetime.timedelta(hours=f) for a double f: the whole hours exactly; the
\* fraction of an hour times 3600000000 (<<0, 233, 361, 3>>) in double
\* arithmetic, then rounded to the microsecond.  NaN raises ValueError,
\* infinity and more than 999999999 days OverflowError.
\*   DivFrom:   x \div d and x % d for d up to 1000000, from the top limb
\*              down: acc the quotient of the limbs above the next one, r
\*              their remainder
\*   SmallOf:   a number below 2^31 as an integer
\*   LowBits:   x % 2^n
\*   RoundAt:   x / 2^n (n >= 1) rounded to the nearest whole number, a tie
\*              to the even one
\*   Micros:    the whole microseconds of p / 2^n, p the fraction of an
\*              hour times 3600000000: the product is rounded to a double
\*              of 53 bits, and the double to the nearest microsecond
\*   OfParts:   dh the whole hours divided by 24, us the microseconds of
\*              the fraction of an hour divided by 1000000
\*   Ranged:    OverflowError when the days leave -999999999..999999999
TimedeltaHours(f) ==
    LET RECURSIVE DivFrom(_, _, _, _)
        DivFrom(x, d, r, acc) ==
            IF Len(acc) >= Len(x) THEN [q |-> acc, r |-> r]
            ELSE DivFrom(x, d, (r * 1024 + x[Len(x) - Len(acc)]) % d,
                         <<(r * 1024 + x[Len(x) - Len(acc)]) \div d>> \o acc)
        SmallOf(x) ==
            Limb(x, 1) + Limb(x, 2) * 1024 + Limb(x, 3) * 1048576
                + Limb(x, 4) * 1073741824
        LowBits(x, n) ==
            [i \in 1..Len(x) |->
                IF i <= n \div 10 THEN x[i]
                ELSE IF i = (n \div 10) + 1 THEN x[i] % 2^(n % 10) ELSE 0]
        RoundAt(x, n) ==
            Carry([i \in 1..(Len(x) + 1) |->
                      Limb(ShiftRight(x, n), i)
                      + (IF /\ i = 1
                            /\ Limb(ShiftRight(x, n - 1), 1) % 2 = 1
                            /\ \/ \E j \in 1..Len(x) : LowBits(x, n - 1)[j] # 0
                               \/ Limb(ShiftRight(x, n), 1) % 2 = 1
                         THEN 1 ELSE 0)])
        Micros(p, n) ==
            IF BitLen(p) > 53
            THEN RoundAt(RoundAt(p, BitLen(p) - 53), n - (BitLen(p) - 53))
            ELSE RoundAt(p, n)
        OfParts(dh, us) ==
            NormDelta(SmallOf(dh.q), dh.r * 3600 + SmallOf(us.q), us.r)
        Ranged(d) ==
            IF d.days >= 0 - 999999999 /\ d.days <= 999999999
            THEN [ok |-> TRUE, delta |-> d]
            ELSE [ok |-> FALSE, exc |-> "OverflowError"]
        OfHours(whole, us) ==
            Ranged(IF f.neg
                   THEN NegDelta(OfParts(DivFrom(whole, 24, 0, <<>>),
                                         DivFrom(us, 1000000, 0, <<>>)))
                   ELSE OfParts(DivFrom(whole, 24, 0, <<>>),
                                DivFrom(us, 1000000, 0, <<>>)))
    IN  IF f.kind = "nan" THEN [ok |-> FALSE, exc |-> "ValueError"]
        ELSE IF f.kind = "inf" THEN [ok |-> FALSE, exc |-> "OverflowError"]
        ELSE IF BitLen(f.mant) + f.exp > 35
        THEN [ok |-> FALSE, exc |-> "OverflowError"]
        ELSE IF f.exp >= 0
        THEN OfHours(Trim(ShiftLeft(f.mant, f.exp)), <<>>)
        ELSE OfHours(Trim(ShiftRight(f.mant, 0 - f.exp)),
                     Micros(Mul(LowBits(f.mant, 0 - f.exp), <<0, 233, 361, 3>>),
                            0 - f.exp))

(***************************************************************************)
(* unnamed/part_000 ("bot copia.py")  parse_simple_event                   *)
(***************************************************************************)
\* [p.strip() for p in content.split("|")]
StripAll(ps) == [k \in 1..Len(ps) |-> Strip(ps[k])]

IntsOf(fs, n) ==
    IF Len(fs) = n /\ \A k \in 1..n : PyInt(fs[k]).ok
    THEN [ok |-> TRUE, vals |-> [k \in 1..n |-> PyInt(fs[k]).val]]
    ELSE [ok |-> FALSE]

\* [int(x) for x in s.split(c)] when it has exactly n items, all integers
IntFields(s, c, n) == IntsOf(Split(s, c), n)

DurationOfFloat(f) ==
    IF f.ok THEN TimedeltaHours(f) ELSE [ok |-> TRUE, delta |-> OneHour]

\* duration_hours as a timedelta: 1.0 without a fourth field or when float()
\* raises ValueError
LegacyDuration(parts) ==
    IF Len(parts) >= 4
    THEN DurationOfFloat(PyFloat(Replace(parts[4], Ord[","], Ord["."])))
    ELSE [ok |-> TRUE, delta |-> OneHour]

\* end_dt = start_dt + timedelta(hours=duration_hours); an exception gives None
LegacyDraft(title, start, end) ==
    IF ~end.ok THEN None ELSE Draft(title, <<>>, <<>>, start, end.dt)

LegacyFromStart(title, start, dur) ==
    IF ~start.ok THEN None
    ELSE IF ~dur.ok THEN None
    ELSE LegacyDraft(title, start.dt, AddDelta(start.dt, dur.delta))

LegacyFromFields(title, dmy, hm, dur) ==
    IF ~dmy.ok \/ ~hm.ok THEN None
    ELSE LegacyFromStart(title,
                         NewDateTime(dmy.vals[3], dmy.vals[2], dmy.vals[1],
                                     hm.vals[1], hm.vals[2]),
                         dur)

LegacyFromParts(parts) ==
    IF Len(parts) < 3 THEN None
    ELSE LegacyFromFields(parts[1], IntFields(parts[2], Ord["/"], 3),
                          IntFields(parts[3], Ord[":"], 2), LegacyDuration(parts))

\* A) "evento: Titolo | dd/mm/yyyy | hh:mm | durata_ore"; every exception
\* inside is caught and gives None
ParseLegacy(t) ==
    LegacyFromParts(StripAll(Split(Strip(SubSeq(t, Len(LegacyPrefix) + 1, Len(t))), Ord["|"])))

\* luogo = seconda riga SOLO se e' una singola "parola" (senza spazi)
LocationOfCopia(lines) ==
    IF Len(lines) >= 2 /\ SingleWord(lines[2]) THEN lines[2] ELSE <<>>

MultilineDraft(t, lines, start, end) ==
    IF ~end.ok THEN Raised(end.exc)
    ELSE Draft(Strip(lines[1]), LocationOfCopia(lines), t, start, end.dt)

MultilineFromStart(t, lines, start) ==
    IF ~start.ok THEN Raised(start.exc)
    ELSE MultilineDraft(t, lines, start.dt, AddDelta(start.dt, OneHour))

\* the "h" marker first, then the bare time (lines 138-149)
TimeSearchCopia(t) == OrElse(SearchMarker(t, MarkerH), SearchBare(t))

MultilineWith(t, lines, date_match, time_match) ==
    IF Len(lines) = 0 THEN None
    ELSE IF ~date_match.found THEN None
    ELSE IF ~time_match.found THEN None
    ELSE MultilineFromStart(t, lines,
            NewDateTime(NormalizeYear(ToInt(date_match.g3)), ToInt(date_match.g2),
                        ToInt(date_match.g1), time_match.hour, time_match.minute))

\* B) the multi-line format
ParseMultilineCopia(t) ==
    MultilineWith(t, NonBlankLines(t), SearchDate(t), TimeSearchCopia(t))

ParseStrippedCopia(t) ==
    IF Len(t) = 0 THEN None
    ELSE IF LowerStartsWith(t, LegacyPrefix) THEN ParseLegacy(t)
    ELSE ParseMultilineCopia(t)

ParseSimpleEventCopia(text) == ParseStrippedCopia(Strip(text))

(***************************************************************************)
(* State.  One inbound message text; the parser variant that was called on *)
(* it and what it returned; and the run of one message handler over it.    *)
(***************************************************************************)
VARIABLES
    text,       \* the inbound message text
    variant,    \* "none", or the parser variant that was called on the text
    out,        \* Pending, or what that call returned
    handler,    \* "none", or the handler processing the message
    pc,         \* the handler's position
    parsed,     \* what the handler's parse call returned
    calls,      \* the third-party calls the handler made, with their outcome
    replies,    \* the replies delivered to the user, in order
    result,     \* "running", "returned", "returned_error", or "raised" (an exception escaped)
    env         \* the process configuration read at start

vars == <<text, variant, out, handler, pc, parsed, calls, replies, result, env>>

Pending == [kind |-> "pending"]

(***************************************************************************)
(* Input texts: concatenations of at most MaxPieces pieces.                *)
(***************************************************************************)
MaxPieces == 3

\* beside ASCII characters the pieces hold a letter (232, e with grave), a
\* space that breaks no line (160, no-break space), a space that breaks one
\* (11, vertical tab) and digits of another script (1632 and 1635, the
\* Arabic-Indic 0 and 3)
Chars(str) ==
    CASE str = "title"     -> Codes(<<"x", "\n">>)
      [] str = "words"     -> <<11, Ord["a"], 160, 232>>
      [] str = "d/m/yy"    -> <<Ord["1"], 1635>>
                                 \o Codes(<<"/", "2", "/", "2", "6", " ">>)
      [] str = "d.m.yyyy"  -> Codes(<<"1", "3", ".", "0", "2", ".", "2", "0", "2", "6", " ">>)
      [] str = "31feb"     -> Codes(<<"3", "1", "/", "0", "2", "/", "2", "6", " ">>)
      [] str = "mixed"     -> Codes(<<"1", "/", "2", ".", "2", "7", " ">>)
      [] str = "yyy"       -> Codes(<<"4", "/", "5", "/", "0", "2", "8", " ">>)
      [] str = "00yy"      -> Codes(<<"6", "/", "7", "/", "0", "0", "2", "9", " ">>)
      [] str = "h"         -> Codes(<<"h", " ", "2", "3", " ">>)
      [] str = "H"         -> Codes(<<"H", "9", ".", "3", "0", " ">>)
      [] str = "ore"       -> Codes(<<"o", "r", "e", " ", "1", "4", " ">>)
      [] str = "bare"      -> <<Ord["1"], 1632>> \o Codes(<<":", "4", "5", " ">>)
      [] str = "evento"    -> Codes(<<"e", "v", "e", "n", "t", "o", ":", "x", "|">>)
      [] str = "legacyEnd" -> Codes(<<"|", "8", ":", "1", "5", "|", "2", ",", "5">>)

Vocabulary ==
    { Chars(n) : n \in {"title", "words", "d/m/yy", "d.m.yyyy", "31feb",
                        "mixed", "yyy", "00yy", "h", "H", "ore", "bare",
                        "evento", "legacyEnd"} }

RECURSIVE Concats(_, _)
Concats(V, n) ==
    IF n = 0 THEN { <<>> }
    ELSE LET shorter == Concats(V, n - 1)
         IN  shorter \cup { p \o t : p \in V, t \in shorter }

Texts == Concats(Vocabulary, MaxPieces)

(***************************************************************************)
(* Specification of the parsers: the text is any input text, and one of    *)
(* the parser variants is called on it.                                    *)
(***************************************************************************)
HandlerIdle ==
    /\ handler = "none"
    /\ pc = "idle"
    /\ parsed = Pending
    /\ calls = <<>>
    /\ replies = <<>>
    /\ result = "running"

Init ==
    /\ text \in Texts
    /\ variant = "none"
    /\ out = Pending
    /\ HandlerIdle
    /\ env = [calendarId |-> TRUE, waCredentials |-> TRUE]

HandlerUnchanged == UNCHANGED <<handler, pc, parsed, calls, replies, result, env>>

CallParseSimpleEventBot ==
    /\ variant = "none"
    /\ variant' = "bot"
    /\ out' = ParseSimpleEventBot(text)
    /\ UNCHANGED text
    /\ HandlerUnchanged

CallParseEventWa ==
    /\ variant = "none"
    /\ variant' = "wa"
    /\ out' = ParseEventWa(text)
    /\ UNCHANGED text
    /\ HandlerUnchanged

CallParseSimpleEventCopia ==
    /\ variant = "none"
    /\ variant' = "copia"
    /\ out' = ParseSimpleEventCopia(text)
    /\ UNCHANGED text
    /\ HandlerUnchanged

Next ==
    \/ CallParseSimpleEventBot
    \/ CallParseEventWa
    \/ CallParseSimpleEventCopia

Spec == Init /\ [][Next]_vars

(***************************************************************************)
(* The message handlers.  Every third-party call (calendar service,        *)
(* calendar insert, chat send) either returns or raises: the environment   *)
(* chooses.  A handler ends by returning ("returned"; "returned_error" is  *)
(* wa_webhook's {"ok": True, "error": ...}) or by letting an exception     *)
(* escape ("raised").                                                      *)
(***************************************************************************)
MaxHandlerPieces == 3

HandlerVocabulary == { Chars(n) : n \in {"title", "d/m/yy", "31feb", "h"} }

HandlerTexts == Concats(HandlerVocabulary, MaxHandlerPieces)

HandlerInit ==
    /\ text \in HandlerTexts
    /\ variant = "none"
    /\ out = Pending
    /\ HandlerIdle
    /\ env \in [calendarId : BOOLEAN, waCredentials : BOOLEAN]

Call(api, ok) == [api |-> api, ok |-> ok]

\* leave the handler
Finish(how) ==
    /\ pc' = "done"
    /\ result' = how

\* every outcome of the parse sent on to the insert, to see that the
\* properties notice
AfterParseAlwaysCreate(p) ==
    /\ parsed' = p
    /\ pc' = "create"
    /\ UNCHANGED result

\* what a parse that gave a draft, None or an exception does to a handler
\* whose parse call is outside any try block (bot.py 162-165,
\* part_000 173-175)
AfterParseUnguarded(p) ==
    /\ parsed' = p
    /\ IF p.kind = "raise" THEN Finish("raised")
       ELSE IF p.kind = "None" THEN Finish("returned")
       ELSE pc' = "create" /\ UNCHANGED result

\* bot.py handle_message, lines 155-165
BotHandleMessage ==
    /\ handler = "none"
    /\ handler' = "bot"
    /\ IF Len(text) = 0
       THEN Finish("returned") /\ UNCHANGED parsed
       ELSE AfterParseUnguarded(ParseSimpleEventBot(Strip(text)))
    /\ UNCHANGED <<text, variant, out, calls, replies, env>>

\* part_000 handle_message, lines 166-175
CopiaHandleMessage ==
    /\ handler = "none"
    /\ handler' = "copia"
    /\ IF Len(text) = 0
       THEN Finish("returned") /\ UNCHANGED parsed
       ELSE AfterParseUnguarded(ParseSimpleEventCopia(Strip(text)))
    /\ UNCHANGED <<text, variant, out, calls, replies, env>>

\* get_calendar_service() and events().insert().execute(): the service may
\* fail to build (no insert is made), the insert may fail, or both succeed
InsertOutcomes == {"service_fails", "insert_fails", "created"}

InsertCalls(o) ==
    IF o = "service_fails" THEN << Call("calendar.service", FALSE) >>
    ELSE << Call("calendar.service", TRUE), Call("calendar.insert", o = "created") >>

\* bot.py create_calendar_event inside the try of handle_message
\* (lines 40-55, 167-174): RuntimeError without GOOGLE_CALENDAR_ID
BotCreateCalendarEvent ==
    /\ handler = "bot"
    /\ pc = "create"
    /\ IF ~env.calendarId
       THEN pc' = "except" /\ UNCHANGED calls
       ELSE \E o \in InsertOutcomes :
               /\ calls' = calls \o InsertCalls(o)
               /\ pc' = IF o = "created" THEN "confirm" ELSE "except"
    /\ UNCHANGED <<text, variant, out, handler, parsed, replies, result, env>>

\* part_000 create_calendar_event (lines 40-58, 177-184): no check of
\* GOOGLE_CALENDAR_ID
CopiaCreateCalendarEvent ==
    /\ handler = "copia"
    /\ pc = "create"
    /\ \E o \in InsertOutcomes :
          /\ calls' = calls \o InsertCalls(o)
          /\ pc' = IF o = "created" THEN "confirm" ELSE "except"
    /\ UNCHANGED <<text, variant, out, handler, parsed, replies, result, env>>

\* await context.bot.send_message(text=msg) at the end of the try block
\* (bot.py 176-186, part_000 186-194)
TelegramSendConfirmation ==
    /\ handler \in {"bot", "copia"}
    /\ pc = "confirm"
    /\ \E ok \in BOOLEAN :
          /\ calls' = Append(calls, Call("chat.send", ok))
          /\ IF ok
             THEN replies' = Append(replies, "created") /\ Finish("returned")
             ELSE pc' = "except" /\ UNCHANGED <<replies, result>>
    /\ UNCHANGED <<text, variant, out, handler, parsed, env>>

\* except Exception: print, then send the apology (bot.py 188-190,
\* part_000 195-200); an exception of this send leaves the handler
TelegramSendApology ==
    /\ handler \in {"bot", "copia"}
    /\ pc = "except"
    /\ \E ok \in BOOLEAN :
          /\ calls' = Append(calls, Call("chat.send", ok))
          /\ IF ok
             THEN replies' = Append(replies, "apology") /\ Finish("returned")
             ELSE Finish("raised") /\ UNCHANGED replies
    /\ UNCHANGED <<text, variant, out, handler, parsed, env>>

\* wa_webhook.py incoming, lines 139-160: the body is not JSON
\* (request.json() of line 140 raises outside the try block, and the
\* exception leaves the handler), or the payload is a message, a
\* notification without messages, or lacks the expected structure
\* (KeyError / IndexError, caught by the except of line 175)
PayloadShapes == {"not_json", "message", "no_messages", "malformed"}

WaIncoming ==
    /\ handler = "none"
    /\ handler' = "wa"
    /\ \E shape \in PayloadShapes :
          IF shape = "not_json" THEN Finish("raised") /\ UNCHANGED parsed
          ELSE IF shape = "malformed" THEN Finish("returned_error") /\ UNCHANGED parsed
          ELSE IF shape = "no_messages" THEN Finish("returned") /\ UNCHANGED parsed
          ELSE LET p == ParseEventWa(text)
               IN  /\ parsed' = p
                   /\ IF p.kind = "raise" THEN Finish("returned_error")
                      ELSE /\ pc' = IF p.kind = "None" THEN "notfound"
                                    ELSE IF ~env.calendarId THEN "noconfig"
                                    ELSE "create"
                           /\ UNCHANGED result
    /\ UNCHANGED <<text, variant, out, calls, replies, env>>

\* wa_send_text (lines 112-123) as the last statement before a return:
\* nothing is sent without credentials; an exception of requests.post is
\* caught by the except of incoming
WaSendAndReturn(reply) ==
    IF ~env.waCredentials
    THEN Finish("returned") /\ UNCHANGED <<calls, replies>>
    ELSE \E ok \in BOOLEAN :
            /\ calls' = Append(calls, Call("chat.send", ok))
            /\ IF ok
               THEN replies' = Append(replies, reply) /\ Finish("returned")
               ELSE Finish("returned_error") /\ UNCHANGED replies

\* lines 154-156
WaSendNotFound ==
    /\ handler = "wa"
    /\ pc = "notfound"
    /\ WaSendAndReturn("notfound")
    /\ UNCHANGED <<text, variant, out, handler, parsed, env>>

\* lines 158-160
WaSendNoConfig ==
    /\ handler = "wa"
    /\ pc = "noconfig"
    /\ WaSendAndReturn("noconfig")
    /\ UNCHANGED <<text, variant, out, handler, parsed, env>>

\* lines 162-170 and the except of lines 175-177: no reply on failure
WaCreateCalendarEvent ==
    /\ handler = "wa"
    /\ pc = "create"
    /\ \E o \in InsertOutcomes :
          /\ calls' = calls \o InsertCalls(o)
          /\ IF o = "created"
             THEN pc' = "confirm" /\ UNCHANGED result
             ELSE Finish("returned_error")
    /\ UNCHANGED <<text, variant, out, handler, parsed, replies, env>>

\* lines 172-173
WaSendConfirmation ==
    /\ handler = "wa"
    /\ pc = "confirm"
    /\ WaSendAndReturn("created")
    /\ UNCHANGED <<text, variant, out, handler, parsed, env>>

HandlerNext ==
    \/ BotHandleMessage
    \/ BotCreateCalendarEvent
    \/ CopiaHandleMessage
    \/ CopiaCreateCalendarEvent
    \/ TelegramSendConfirmation
    \/ TelegramSendApology
    \/ WaIncoming
    \/ WaSendNotFound
    \/ WaSendNoConfig
    \/ WaCreateCalendarEvent
    \/ WaSendConfirmation

HandlerSpec == HandlerInit /\ [][HandlerNext]_vars

(***************************************************************************)
(* The grammar of the tokens, stated by maximal runs of digits rather than *)
(* by the order in which a matcher tries alternatives.  The properties     *)
(* below speak about tokens in these terms.                                *)
(***************************************************************************)
\* length of the run of digits that starts at p (0 when none does)
RECURSIVE DigitRun(_, _)
DigitRun(t, p) == IF p >= 1 /\ p <= Len(t) /\ IsDecimal(t[p]) THEN 1 + DigitRun(t, p + 1) ELSE 0

\* no word character at p: the end of the text, or punctuation or space
Ends(t, p) == ~IsWordAt(t, p)

NumberAt(t, p, n) == ToInt(SubSeq(t, p, p + n - 1))

\* an hour 0..23, the whole run of digits at p: one digit of any script, or
\* two of which the first is an ASCII 0, 1 or 2, and after a 2 the second
\* an ASCII 0..3
HourTokenAt(t, p) ==
    \/ DigitRun(t, p) = 1
    \/ /\ DigitRun(t, p) = 2
       /\ \/ t[p] \in {Ord["0"], Ord["1"]}
          \/ t[p] = Ord["2"] /\ t[p + 1] \in Ord["0"]..Ord["3"]

\* a separator and a minute 00..59 written with two digits, the first an
\* ASCII 0..5, then an end
MinuteTokenAt(t, q) ==
    /\ CharIn(t, q, {Ord["."], Ord[":"]})
    /\ DigitRun(t, q + 1) >= 2
    /\ t[q + 1] \in Ord["0"]..Ord["5"]
    /\ Ends(t, q + 3)

\* the time <<hour, minute>> of the hour token at p, minute 0 when absent
TimeOfTokenAt(t, p) ==
    << NumberAt(t, p, DigitRun(t, p)),
       IF MinuteTokenAt(t, p + DigitRun(t, p))
       THEN NumberAt(t, p + DigitRun(t, p) + 1, 2) ELSE 0 >>

\* a marker word (given in lower case) starts at i, not inside a word, and
\* after optional whitespace an hour follows, with a minute or an end
MarkerTokenAt(t, i, word) ==
    /\ Ends(t, i - 1)
    /\ i + Len(word) - 1 <= Len(t)
    /\ EqualsIgnoringCase(SubSeq(t, i, i + Len(word) - 1), word)
    /\ HourTokenAt(t, i + Len(word) + WsRun(t, i + Len(word)))
    /\ \/ MinuteTokenAt(t, i + Len(word) + WsRun(t, i + Len(word))
                              + DigitRun(t, i + Len(word) + WsRun(t, i + Len(word))))
       \/ Ends(t, i + Len(word) + WsRun(t, i + Len(word))
                      + DigitRun(t, i + Len(word) + WsRun(t, i + Len(word))))

MarkerTokens(t, word) == {i \in 1..Len(t) : MarkerTokenAt(t, i, word)}

TimeOfMarkerToken(t, i, word) ==
    TimeOfTokenAt(t, i + Len(word) + WsRun(t, i + Len(word)))

\* a bare HH:MM or HH.MM, not inside a word
BareTokenAt(t, i) ==
    /\ Ends(t, i - 1)
    /\ HourTokenAt(t, i)
    /\ MinuteTokenAt(t, i + DigitRun(t, i))

BareTokens(t) == {i \in 1..Len(t) : BareTokenAt(t, i)}

\* a date token as the code accepts it: day and month of one or two digits,
\* a year of two to four digits, "/" or "." at either place, not inside a
\* word.  i: start, j: start of the month, k: start of the year
DateTokenParts(t, i, j, k) ==
    /\ Ends(t, i - 1)
    /\ DigitRun(t, i) \in {1, 2}
    /\ CharIn(t, j - 1, {Ord["/"], Ord["."]})
    /\ DigitRun(t, j) \in {1, 2}
    /\ CharIn(t, k - 1, {Ord["/"], Ord["."]})
    /\ DigitRun(t, k) \in {2, 3, 4}
    /\ Ends(t, k + DigitRun(t, k))

MonthStart(t, i) == i + DigitRun(t, i) + 1

YearStart(t, i) == MonthStart(t, i) + DigitRun(t, MonthStart(t, i)) + 1

DateTokenAt(t, i) == DateTokenParts(t, i, MonthStart(t, i), YearStart(t, i))

DateTokens(t) == {i \in 1..Len(t) : DateTokenAt(t, i)}

\* the date token of the grammar the specification states: the same
\* separator twice and a year of exactly two or four digits
StrictDateTokenAt(t, i) ==
    /\ DateTokenAt(t, i)
    /\ t[MonthStart(t, i) - 1] = t[YearStart(t, i) - 1]
    /\ DigitRun(t, YearStart(t, i)) \in {2, 4}

\* the text the parsers work on
Trimmed == Strip(text)

IsDraft == out.kind = "draft"

HourMinute(dt) == <<dt.hour, dt.minute>>

\* every digit of t lies inside the leftmost date token of t
OnlyDateDigits(t) ==
    /\ SearchDate(t).found
    /\ \A k \in 1..Len(t) :
          IsDecimal(t[k]) => SearchDate(t).start <= k /\ k < SearchDate(t).end

(***************************************************************************)
(* C1.  A text that has a date token and no time token gives no draft: in  *)
(* particular, when the only digits of the text are those of the date      *)
(* token itself, parse_simple_event of bot.py and parse_event of           *)
(* wa_webhook.py return None.                                              *)
(***************************************************************************)
C1_DateWithoutTimeGivesNone ==
    (variant \in {"bot", "wa"} /\ OnlyDateDigits(Trimmed)) => out = None

(***************************************************************************)
(* C2.  The parsers of bot.py and wa_webhook.py signal an unparseable text *)
(* by returning None and never let an exception escape: every call returns *)
(* either None or a draft.                                                 *)
(***************************************************************************)
C2_ParserNeverRaises ==
    variant \in {"bot", "wa"} => out.kind \in {"None", "draft"}

\* the text is in the legacy one-line format of unnamed/part_000
IsLegacyText == LowerStartsWith(Trimmed, LegacyPrefix)

Duration == SubDateTime(out.end_dt, out.start_dt)

SixtyMinutes == [days |-> 0, seconds |-> 3600, microseconds |-> 0]

(***************************************************************************)
(* C3, as stated.  Every draft any parser of the repository returns ends   *)
(* exactly one hour after it starts.                                       *)
(***************************************************************************)
C3_EveryDraftLastsOneHour == IsDraft => Duration = SixtyMinutes

(***************************************************************************)
(* C3, amended.  Every draft of bot.py and of wa_webhook.py, and every     *)
(* draft unnamed/part_000 returns for a text that does not begin with      *)
(* "evento:", ends exactly one hour after it starts.                       *)
(***************************************************************************)
C3_DraftLastsOneHourUnlessLegacy ==
    (IsDraft /\ (variant \in {"bot", "wa"} \/ ~IsLegacyText))
        => Duration = SixtyMinutes

\* a draft whose hour runs over midnight, from the copy of the bot
C3_Witness ==
    /\ IsDraft
    /\ variant = "copia"
    /\ ~IsLegacyText
    /\ out.start_dt.hour = 23
    /\ out.end_dt.day = out.start_dt.day + 1

(***************************************************************************)
(* C4.  bot.py and wa_webhook.py return a draft only for a text with a     *)
(* date token of the stated grammar: the same separator at both places and *)
(* a year of exactly two or exactly four digits.                           *)
(***************************************************************************)
C4_DraftOnlyFromStrictDateToken ==
    (variant \in {"bot", "wa"} /\ IsDraft)
        => \E i \in 1..Len(Trimmed) : StrictDateTokenAt(Trimmed, i)

\* the location the specification states for a text
StatedLocation(lines) ==
    IF Len(lines) >= 2 /\ NoWhitespace(lines[2]) /\ ~HasDigit(lines[2])
    THEN lines[2] ELSE <<>>

(***************************************************************************)
(* C5.  In every parser variant the location of a draft is the second      *)
(* non-blank line when that line exists and has neither whitespace nor a   *)
(* digit, and the empty string otherwise.                                  *)
(***************************************************************************)
C5_LocationIsPlainSecondLine ==
    IsDraft => out.location = StatedLocation(NonBlankLines(Trimmed))

(***************************************************************************)
(* C6.  In every parser variant the description of a draft is the whole    *)
(* input text with only its leading and trailing whitespace removed.       *)
(***************************************************************************)
C6_DescriptionIsTrimmedText == IsDraft => out.description = Trimmed

\* the time the stated priority gives: an "h" token if there is one, else
\* (with useOre) an "ore" token, else a bare token; the leftmost of its kind
PriorityTime(t, useOre) ==
    IF MarkerTokens(t, Codes(<<"h">>)) # {}
    THEN TimeOfMarkerToken(t, Min(MarkerTokens(t, Codes(<<"h">>))), Codes(<<"h">>))
    ELSE IF useOre /\ MarkerTokens(t, Codes(<<"o", "r", "e">>)) # {}
    THEN TimeOfMarkerToken(t, Min(MarkerTokens(t, Codes(<<"o", "r", "e">>))), Codes(<<"o", "r", "e">>))
    ELSE IF BareTokens(t) # {}
    THEN TimeOfTokenAt(t, Min(BareTokens(t)))
    ELSE <<-1, -1>>

(***************************************************************************)
(* C7.  The time of a draft's start is chosen by the priority of the       *)
(* patterns and not by position: the leftmost "h" token if the text has    *)
(* one, otherwise (wa_webhook.py only) the leftmost "ore" token, otherwise *)
(* the leftmost bare HH:MM or HH.MM; the minute is 0 when a marker token   *)
(* has none.                                                               *)
(***************************************************************************)
C7_TimeByPatternPriority ==
    /\ (variant = "bot" /\ IsDraft)
          => HourMinute(out.start_dt) = PriorityTime(Trimmed, FALSE)
    /\ (variant = "wa" /\ IsDraft)
          => HourMinute(out.start_dt) = PriorityTime(Trimmed, TRUE)

\* a bare token stands left of an "h" token with another time, and the
\* draft of bot.py has the time of the "h" token
C7_Witness ==
    /\ variant = "bot"
    /\ IsDraft
    /\ MarkerTokens(Trimmed, Codes(<<"h">>)) # {}
    /\ BareTokens(Trimmed) # {}
    /\ Min(BareTokens(Trimmed)) < Min(MarkerTokens(Trimmed, Codes(<<"h">>)))
    /\ DateTokens(Trimmed) # {}
    /\ Min(BareTokens(Trimmed)) > YearStart(Trimmed, Min(DateTokens(Trimmed)))
    /\ TimeOfTokenAt(Trimmed, Min(BareTokens(Trimmed))) # HourMinute(out.start_dt)

\* the numeric value of the year of the date token at i
YearValue(t, i) == NumberAt(t, YearStart(t, i), DigitRun(t, YearStart(t, i)))

DayValue(t, i) == NumberAt(t, i, DigitRun(t, i))

MonthValue(t, i) == NumberAt(t, MonthStart(t, i), DigitRun(t, MonthStart(t, i)))

LeftmostDate == Min(DateTokens(Trimmed))

DayAndMonthOfLeftmost ==
    /\ DateTokens(Trimmed) # {}
    /\ out.start_dt.day = DayValue(Trimmed, LeftmostDate)
    /\ out.start_dt.month = MonthValue(Trimmed, LeftmostDate)

(***************************************************************************)
(* C8, as stated.  The day and month of a draft's start are those of the   *)
(* leftmost date token; its year is the token's year plus 2000 when the    *)
(* year is written with two digits, and the token's year otherwise.        *)
(***************************************************************************)
C8_CenturyAddedToTwoDigitYears ==
    (variant \in {"bot", "wa"} /\ IsDraft) =>
        /\ DayAndMonthOfLeftmost
        /\ out.start_dt.year =
              IF DigitRun(Trimmed, YearStart(Trimmed, LeftmostDate)) = 2
              THEN YearValue(Trimmed, LeftmostDate) + 2000
              ELSE YearValue(Trimmed, LeftmostDate)

(***************************************************************************)
(* C8, amended.  The day and month of a draft's start are those of the     *)
(* leftmost date token; its year is the token's year plus 2000 when the    *)
(* numeric value of the year is below 100, with however many digits it is  *)
(* written, and the token's year otherwise.                                *)
(***************************************************************************)
C8_CenturyAddedToYearsBelow100 ==
    (variant \in {"bot", "wa"} /\ IsDraft) =>
        /\ DayAndMonthOfLeftmost
        /\ out.start_dt.year =
              IF YearValue(Trimmed, LeftmostDate) < 100
              THEN YearValue(Trimmed, LeftmostDate) + 2000
              ELSE YearValue(Trimmed, LeftmostDate)

\* a draft from a year written with four digits and worth less than 100,
\* after an earlier date token was passed over for the leftmost one
C8_Witness ==
    /\ variant \in {"bot", "wa"}
    /\ IsDraft
    /\ Cardinality(DateTokens(Trimmed)) >= 2
    /\ DigitRun(Trimmed, YearStart(Trimmed, LeftmostDate)) = 4
    /\ YearValue(Trimmed, LeftmostDate) < 100
    /\ out.start_dt.year = YearValue(Trimmed, LeftmostDate) + 2000

\* a call to the calendar or to the chat service failed
SomeCallFailed == \E k \in 1..Len(calls) : ~calls[k].ok

ApologySent == \E k \in 1..Len(replies) : replies[k] = "apology"

(***************************************************************************)
(* C9.  In handle_message of bot.py and incoming of wa_webhook.py a failed *)
(* call to the calendar or to the chat service never leaves the handler:   *)
(* once the handler is done, no exception has escaped it and an apology    *)
(* was sent to the user.                                                   *)
(***************************************************************************)
C9_FailuresCaughtAndReported ==
    (handler \in {"bot", "wa"} /\ pc = "done" /\ SomeCallFailed)
        => (result # "raised" /\ ApologySent)

(***************************************************************************)
(* C10.  parse_event of wa_webhook.py gives, for every text, the outcome   *)
(* parse_simple_event of bot.py gives: both None, or drafts equal in       *)
(* title, location, description, start_dt and end_dt.                      *)
(***************************************************************************)
C10_WaParsesAsBot == variant = "wa" => out = ParseSimpleEventBot(text)

\* the places in the record of calls where the calendar insert was invoked
InsertsMade == {k \in 1..Len(calls) : calls[k].api = "calendar.insert"}

\* an insert that returned without error, and a later send that succeeded
ConfirmedAfterInsert ==
    \E i \in InsertsMade :
        /\ calls[i].ok
        /\ \E j \in (i + 1)..Len(calls) : calls[j].api = "chat.send" /\ calls[j].ok

ConfirmationSent == \E k \in 1..Len(replies) : replies[k] = "created"

(***************************************************************************)
(* C11.  In every message handler, for one inbound message the calendar    *)
(* insert is invoked at most once and only after the parse returned a      *)
(* draft, never after None or a failed parse; the "event created" reply is *)
(* sent only after that insert returned without error.                     *)
(***************************************************************************)
C11_InsertOnceAfterDraftThenConfirm ==
    /\ Cardinality(InsertsMade) <= 1
    /\ InsertsMade # {} => parsed.kind = "draft"
    /\ ConfirmationSent => ConfirmedAfterInsert

\* the handler of wa_webhook.py is done, having inserted the event of a
\* draft and sent the confirmation
C11_Witness ==
    /\ handler = "wa"
    /\ pc = "done"
    /\ parsed.kind = "draft"
    /\ Cardinality(InsertsMade) = 1
    /\ ConfirmationSent

=============================================================================
